---- MODULE Spec2Model ----
(***************************************************************************)
(* youtube-mcp: the subtitle module (src/modules/subtitle.ts) and the tool *)
(* call handler (src/index.mts).                                           *)
(*                                                                         *)
(* Texts are TLA+ strings; TLC evaluates Len, \o and SubSeq on them, so    *)
(* the string functions of the code are written character by character.   *)
(***************************************************************************)
EXTENDS Integers, Sequences, FiniteSets, TLC

(***************************************************************************)
(* ECMAScript string primitives used by the code                           *)
(***************************************************************************)

\* s.charAt(i - 1)
CharAt(s, i) == SubSeq(s, i, i)

\* s.substring(i - 1)
From(s, i) == SubSeq(s, i, Len(s))

\* \d of a regular expression
Digit == {"0", "1", "2", "3", "4", "5", "6", "7", "8", "9"}

\* [a-z] of a regular expression
Lower == {"a", "b", "c", "d", "e", "f", "g", "h", "i", "j", "k", "l", "m",
          "n", "o", "p", "q", "r", "s", "t", "u", "v", "w", "x", "y", "z"}

\* [A-Z] of a regular expression
Upper == {"A", "B", "C", "D", "E", "F", "G", "H", "I", "J", "K", "L", "M",
          "N", "O", "P", "Q", "R", "S", "T", "U", "V", "W", "X", "Y", "Z"}

\* \s of a regular expression and the characters String.prototype.trim
\* removes, restricted to the characters the inputs are built from
WhiteSpace == {" ", "\t", "\r", "\n"}

\* s.startsWith(p)
StartsWith(s, p) == Len(s) >= Len(p) /\ SubSeq(s, 1, Len(p)) = p

\* s.endsWith(p)
EndsWith(s, p) == Len(s) >= Len(p) /\ SubSeq(s, Len(s) - Len(p) + 1, Len(s)) = p

\* s.startsWith(p, i - 1)
HasAt(s, i, p) == i >= 1 /\ i + Len(p) - 1 <= Len(s) /\ SubSeq(s, i, i + Len(p) - 1) = p

\* s.includes(p)
Includes(s, p) == \E i \in 1..(Len(s) - Len(p) + 1) : SubSeq(s, i, i + Len(p) - 1) = p

\* s.indexOf(p) + 1, 0 when p does not occur
IndexOf(s, p) ==
  IF Includes(s, p)
  THEN CHOOSE i \in 1..(Len(s) - Len(p) + 1) :
         /\ SubSeq(s, i, i + Len(p) - 1) = p
         /\ \A j \in 1..(i - 1) : SubSeq(s, j, j + Len(p) - 1) # p
  ELSE 0

\* s.replace(p, '') with a string pattern: the first occurrence only
RemoveFirst(s, p) ==
  LET i == IndexOf(s, p)
  IN IF i = 0 THEN s ELSE SubSeq(s, 1, i - 1) \o From(s, i + Len(p))

\* s.trim()
Trim(s) ==
  LET keep == {i \in 1..Len(s) : CharAt(s, i) \notin WhiteSpace}
  IN IF keep = {} THEN ""
     ELSE SubSeq(s, CHOOSE i \in keep : \A j \in keep : i <= j,
                    CHOOSE i \in keep : \A j \in keep : i >= j)

\* the index after the longest run of characters of set cs that starts at i
RECURSIVE SkipWhile(_, _, _)
SkipWhile(s, i, cs) ==
  IF i <= Len(s) /\ CharAt(s, i) \in cs THEN SkipWhile(s, i + 1, cs) ELSE i

\* s.split(sep) for a one-character separator
RECURSIVE SplitOn(_, _)
SplitOn(s, sep) ==
  LET i == IndexOf(s, sep)
  IN IF i = 0 THEN <<s>>
     ELSE <<SubSeq(s, 1, i - 1)>> \o SplitOn(From(s, i + 1), sep)

\* parts.join(sep)
RECURSIVE Join(_, _)
Join(parts, sep) ==
  IF parts = <<>> THEN ""
  ELSE IF Len(parts) = 1 THEN parts[1]
  ELSE parts[1] \o sep \o Join(Tail(parts), sep)

(***************************************************************************)
(* removeTimestamps                                                        *)
(***************************************************************************)

\* content.split(/\r?\n/): a "\r" directly before a "\n" belongs to the
\* separator, so every piece but the last loses one trailing "\r"
SplitLines(content) ==
  LET pieces == SplitOn(content, "\n")
  IN [k \in 1..Len(pieces) |->
        IF k < Len(pieces) /\ EndsWith(pieces[k], "\r")
        THEN SubSeq(pieces[k], 1, Len(pieces[k]) - 1)
        ELSE pieces[k]]

\* line === 'WEBVTT' || line.startsWith('Kind:') || line.startsWith('Language:')
IsVttHeader(line) ==
  \/ line = "WEBVTT"
  \/ StartsWith(line, "Kind:")
  \/ StartsWith(line, "Language:")

\* /^\d+$/.test(line)
IsSequenceNumber(line) ==
  Len(line) >= 1 /\ \A i \in 1..Len(line) : CharAt(line, i) \in Digit

\* \d{2}:\d{2}:\d{2}[.,]\d{3} at index i (12 characters)
IsTimecodeAt(s, i) ==
  /\ i + 11 <= Len(s)
  /\ \A k \in {0, 1, 3, 4, 6, 7, 9, 10, 11} : CharAt(s, i + k) \in Digit
  /\ CharAt(s, i + 2) = ":"
  /\ CharAt(s, i + 5) = ":"
  /\ CharAt(s, i + 8) \in {".", ","}

\* position:\d+% | line:-?\d+%? | align:(?:start|middle|end) | size:\d+% |
\* vertical:(?:rl|lr) at index i: the index after the match, 0 for none.
\* Each alternative is followed by \s or the end of the line, so only its
\* longest match can lead to a match of the whole expression.
CueSettingEnd(s, i) ==
  LET percent(j) ==
        LET e == SkipWhile(s, j, Digit)
        IN IF e > j /\ HasAt(s, e, "%") THEN e + 1 ELSE 0
      word(j, ws) ==
        IF \E w \in ws : HasAt(s, j, w)
        THEN j + Len(CHOOSE w \in ws : HasAt(s, j, w))
        ELSE 0
  IN IF HasAt(s, i, "position:") THEN percent(i + 9)
     ELSE IF HasAt(s, i, "line:") THEN
       LET d == IF HasAt(s, i + 5, "-") THEN i + 6 ELSE i + 5
           e == SkipWhile(s, d, Digit)
       IN IF e = d THEN 0 ELSE IF HasAt(s, e, "%") THEN e + 1 ELSE e
     ELSE IF HasAt(s, i, "align:") THEN word(i + 6, {"start", "middle", "end"})
     ELSE IF HasAt(s, i, "size:") THEN percent(i + 5)
     ELSE IF HasAt(s, i, "vertical:") THEN word(i + 9, {"rl", "lr"})
     ELSE 0

\* (?:\s+(?:<cue setting>))*\s*$ from index i
RECURSIVE CueSettingsTail(_, _)
CueSettingsTail(s, i) ==
  LET j == SkipWhile(s, i, WhiteSpace)
  IN IF j > Len(s) THEN TRUE
     ELSE IF j = i THEN FALSE
     ELSE LET e == CueSettingEnd(s, j)
          IN e # 0 /\ CueSettingsTail(s, e)

\* the expression without its cue settings: /^<timecode>\s*-->\s*<timecode>$/
IsTimestampLineNoSettings(line) ==
  /\ IsTimecodeAt(line, 1)
  /\ LET a == SkipWhile(line, 13, WhiteSpace)
     IN /\ HasAt(line, a, "-->")
        /\ LET b == SkipWhile(line, a + 3, WhiteSpace)
           IN IsTimecodeAt(line, b) /\ b + 11 = Len(line)

\* /^<timecode>\s*-->\s*<timecode>(?:\s+(?:<cue setting>))*\s*$/.test(line)
IsTimestampLine(line) ==
  /\ IsTimecodeAt(line, 1)
  /\ LET a == SkipWhile(line, 13, WhiteSpace)
     IN /\ HasAt(line, a, "-->")
        /\ LET b == SkipWhile(line, a + 3, WhiteSpace)
           IN IsTimecodeAt(line, b) /\ CueSettingsTail(line, b + 12)

\* line.replace(/<[^>]*>/g, ''): a "<" starts a tag when a ">" follows it
\* anywhere later; the tag ends at the first such ">"
\* StripTags with the g flag of the expression forgotten: the first tag only
StripFirstTag(s) ==
  LET i == IndexOf(s, "<")
  IN IF i = 0 \/ ~Includes(From(s, i), ">") THEN s
     ELSE SubSeq(s, 1, i - 1) \o From(s, i + IndexOf(From(s, i), ">"))

\* no ">" after the first "<" means no ">" after any later "<" either
RECURSIVE StripTags(_)
StripTags(s) ==
  LET i == IndexOf(s, "<")
  IN IF i = 0 \/ ~Includes(From(s, i), ">") THEN s
     ELSE SubSeq(s, 1, i - 1) \o StripTags(From(s, i + IndexOf(From(s, i), ">")))

\* the body of the loop of removeTimestamps for one physical line: the lines
\* it pushes onto result
StripLine(raw) ==
  LET line == Trim(raw)
      cleanedLine == StripTags(line)
  IN IF line = "" THEN <<>>
     ELSE IF IsVttHeader(line) THEN <<>>
     ELSE IF IsSequenceNumber(line) THEN <<>>
     ELSE IF IsTimestampLine(line) THEN <<>>
     ELSE IF Trim(cleanedLine) # "" THEN <<Trim(cleanedLine)>>
     ELSE <<>>

RECURSIVE StripLines(_)
StripLines(lines) ==
  IF lines = <<>> THEN <<>> ELSE StripLine(Head(lines)) \o StripLines(Tail(lines))

removeTimestamps(content) == Trim(Join(StripLines(SplitLines(content)), "\n"))

(***************************************************************************)
(* listSubtitles: the normalisation of the tool's listing                  *)
(***************************************************************************)

\* IsNoise with the test for the "[debug]" prefix forgotten
IsNoiseButDebug(line) ==
  \/ StartsWith(line, "[youtube]")
  \/ Includes(line, "Downloading")
  \/ Includes(line, "Extracting URL")
  \/ Includes(line, "Command-line config")
  \/ Includes(line, "Encodings:")
  \/ Includes(line, "Python ")
  \/ Includes(line, "exe versions:")
  \/ Includes(line, "Optional libraries:")
  \/ Includes(line, "Proxy map:")
  \/ Includes(line, "Request Handlers:")
  \/ Includes(line, "Plugin directories:")
  \/ Includes(line, "Loaded ")
  \/ Includes(line, "PO Token")
  \/ Includes(line, "Decrypted nsig")
  \/ Includes(line, "Sort order")
  \/ Includes(line, "Formats sorted")
  \/ Includes(line, "GVS PO Token")

\* the condition of the first `if` of the loop: the line is diagnostic noise
IsNoise(line) ==
  \/ StartsWith(line, "[debug]")
  \/ StartsWith(line, "[youtube]")
  \/ Includes(line, "Downloading")
  \/ Includes(line, "Extracting URL")
  \/ Includes(line, "Command-line config")
  \/ Includes(line, "Encodings:")
  \/ Includes(line, "Python ")
  \/ Includes(line, "exe versions:")
  \/ Includes(line, "Optional libraries:")
  \/ Includes(line, "Proxy map:")
  \/ Includes(line, "Request Handlers:")
  \/ Includes(line, "Plugin directories:")
  \/ Includes(line, "Loaded ")
  \/ Includes(line, "PO Token")
  \/ Includes(line, "Decrypted nsig")
  \/ Includes(line, "Sort order")
  \/ Includes(line, "Formats sorted")
  \/ Includes(line, "GVS PO Token")

\* [a-z-] of the two language-code expressions
LangChar == Lower \cup {"-"}

NoMatch == [ok |-> FALSE, langCode |-> "", langName |-> ""]

\* line.match(/^([a-z-]+)\s+(.+?)?\s+vtt/) with langCode = match[1] and
\* langName = match[2]?.trim() || ''.
\* [a-z-]+ and the first \s+ are followed by \s and by a non-\s, so each is
\* the longest run.  The backtracking search tries the longest first \s+
\* first and, for it, the group present before the group absent, the group
\* as short as possible: the group then starts at the first character after
\* the white space and ends at the first index g from which a run of white
\* space leads to "vtt" ("." matches no line terminator).  When there is no
\* such g the only match left has the group absent or made of white space,
\* and langName is '' either way: two or more white-space characters
\* directly before "vtt".
AutoTrackMatch(line) ==
  LET c == SkipWhile(line, 1, LangChar)
      w == SkipWhile(line, c, WhiteSpace)
      ends == {g \in w..Len(line) :
                 /\ \A k \in w..g : CharAt(line, k) \notin {"\n", "\r"}
                 /\ LET v == SkipWhile(line, g + 1, WhiteSpace)
                    IN v > g + 1 /\ HasAt(line, v, "vtt")}
  IN IF c = 1 \/ w = c THEN NoMatch
     ELSE IF ends # {}
     THEN [ok |-> TRUE, langCode |-> SubSeq(line, 1, c - 1),
           langName |-> Trim(SubSeq(line, w, CHOOSE g \in ends : \A h \in ends : g <= h))]
     ELSE IF w - c >= 2 /\ HasAt(line, w, "vtt")
     THEN [ok |-> TRUE, langCode |-> SubSeq(line, 1, c - 1), langName |-> ""]
     ELSE NoMatch

\* line.match(/^([a-z-]+)\s+/): match[1], "" when the line does not match
LeadingCode(line) ==
  LET c == SkipWhile(line, 1, LangChar)
  IN IF c > 1 /\ c <= Len(line) /\ CharAt(line, c) \in WhiteSpace
     THEN SubSeq(line, 1, c - 1)
     ELSE ""

\* the state of the loop before its first line
ListInit == [currentSection |-> "", hasManualSubtitles |-> FALSE,
             originalLanguages |-> {}, result |-> <<>>]

\* AutoTrackStep with the short-code test written langCode.length < 2
AutoTrackStepShorter(st, line) ==
  LET m == AutoTrackMatch(line)
      langCode == m.langCode
      langName == m.langName
  IN IF ~m.ok THEN st
     ELSE IF \/ EndsWith(langCode, "-orig")
             \/ Includes(langName, "Original")
             \/ (langName = "" /\ Len(langCode) < 2)
     THEN [st EXCEPT !.originalLanguages = @ \cup {RemoveFirst(langCode, "-orig"), langCode},
                     !.result = Append(@, line)]
     ELSE IF langCode \in st.originalLanguages
     THEN [st EXCEPT !.result = Append(@, line)]
     ELSE IF langName = "" /\ Len(langCode) < 2
     THEN [st EXCEPT !.originalLanguages = @ \cup {langCode},
                     !.result = Append(@, line)]
     ELSE st

\* AutoTrackStep with a final else that pushes the line it cannot classify
AutoTrackStepKeepsAll(st, line) ==
  LET m == AutoTrackMatch(line)
      langCode == m.langCode
      langName == m.langName
  IN IF ~m.ok THEN st
     ELSE IF \/ EndsWith(langCode, "-orig")
             \/ Includes(langName, "Original")
             \/ (langName = "" /\ Len(langCode) <= 3)
     THEN [st EXCEPT !.originalLanguages = @ \cup {RemoveFirst(langCode, "-orig"), langCode},
                     !.result = Append(@, line)]
     ELSE [st EXCEPT !.result = Append(@, line)]

\* the branch of the loop for a track line of the automatic-captions section
AutoTrackStep(st, line) ==
  LET m == AutoTrackMatch(line)
      langCode == m.langCode
      langName == m.langName
  IN IF ~m.ok THEN st
     ELSE IF \/ EndsWith(langCode, "-orig")
             \/ Includes(langName, "Original")
             \/ (langName = "" /\ Len(langCode) <= 3)
     THEN [st EXCEPT !.originalLanguages = @ \cup {RemoveFirst(langCode, "-orig"), langCode},
                     !.result = Append(@, line)]
     ELSE IF langCode \in st.originalLanguages
     THEN [st EXCEPT !.result = Append(@, line)]
     ELSE IF langName = "" /\ Len(langCode) <= 3
     THEN [st EXCEPT !.originalLanguages = @ \cup {langCode},
                     !.result = Append(@, line)]
     ELSE st

\* ListStep with hasManualSubtitles = true forgotten
ListStepNoManualFlag(st, line) ==
  IF IsNoise(line) THEN st
  ELSE IF Includes(line, "Available automatic captions for")
  THEN [st EXCEPT !.currentSection = "auto",
                  !.result = Append(@, "[info] Available automatic captions:")]
  ELSE IF Includes(line, "Available subtitles for")
  THEN [st EXCEPT !.currentSection = "manual",
                  !.result = Append(@, "[info] Available manual subtitles:")]
  ELSE IF st.currentSection # "" /\ Trim(line) # "" /\ ~StartsWith(line, "Language")
  THEN IF Includes(line, "has no subtitles") THEN st
       ELSE IF Includes(line, " from ") THEN st
       ELSE IF st.currentSection = "auto" THEN AutoTrackStep(st, line)
       ELSE [st EXCEPT !.result = Append(@, line)]
  ELSE IF StartsWith(line, "Language")
  THEN [st EXCEPT !.result = Append(@, line)]
  ELSE st

\* one iteration of the loop over the lines
ListStep(st, line) ==
  IF IsNoise(line) THEN st
  ELSE IF Includes(line, "Available automatic captions for")
  THEN [st EXCEPT !.currentSection = "auto",
                  !.result = Append(@, "[info] Available automatic captions:")]
  ELSE IF Includes(line, "Available subtitles for")
  THEN [st EXCEPT !.currentSection = "manual",
                  !.hasManualSubtitles = TRUE,
                  !.result = Append(@, "[info] Available manual subtitles:")]
  ELSE IF st.currentSection # "" /\ Trim(line) # "" /\ ~StartsWith(line, "Language")
  THEN IF Includes(line, "has no subtitles") THEN st
       ELSE IF Includes(line, " from ") THEN st
       ELSE IF st.currentSection = "auto" THEN AutoTrackStep(st, line)
       ELSE [st EXCEPT !.result = Append(@, line)]
  ELSE IF StartsWith(line, "Language")
  THEN [st EXCEPT !.result = Append(@, line)]
  ELSE st

\* the loop over the lines
RECURSIVE FirstPass(_, _)
FirstPass(st, lines) ==
  IF lines = <<>> THEN st ELSE FirstPass(ListStep(st, Head(lines)), Tail(lines))

\* the condition of the second pass
SecondPassRuns(st) ==
  /\ st.currentSection = "auto"
  /\ ~st.hasManualSubtitles
  /\ st.originalLanguages # {}

\* the callback of result.filter of the second pass (index counts from 1)
SecondPassKeeps(st, line, index) ==
  \/ index <= 2
  \/ LET langCode == LeadingCode(line)
     IN IF langCode # ""
        THEN \/ langCode \in st.originalLanguages
             \/ RemoveFirst(langCode, "-orig") \in st.originalLanguages
        ELSE TRUE

RECURSIVE FilterFrom(_, _, _)
FilterFrom(st, lines, index) ==
  IF index > Len(lines) THEN <<>>
  ELSE (IF SecondPassKeeps(st, lines[index], index) THEN <<lines[index]>> ELSE <<>>)
       \o FilterFrom(st, lines, index + 1)

\* result.filter(...) of the second pass
SecondPass(st) == FilterFrom(st, st.result, 1)

NoSubtitlesLine == "No subtitles available for this video."

\* result.length <= 2: only headers, the sentinel line is pushed
OnlyHeaders(result) == Len(result) <= 2

\* the lines listSubtitles returns, st being the state after the loop
FinalLines(st) ==
  LET finalResult == SecondPass(st)
  IN IF SecondPassRuns(st) /\ Len(finalResult) > 2 THEN finalResult
     ELSE IF OnlyHeaders(st.result) THEN Append(st.result, NoSubtitlesLine)
     ELSE st.result

\* the text listSubtitles returns for the tool's output
ListedText(output) == Join(FinalLines(FirstPass(ListInit, SplitOn(output, "\n"))), "\n")

\* line.match(/^([a-z]{2}(?:-[A-Za-z]+)?)\s+/): match[1], "" for no match.
\* The optional part, when it is there, is the longest run of letters: it is
\* followed by \s.
AvailableCode(line) ==
  IF ~(Len(line) >= 3 /\ CharAt(line, 1) \in Lower /\ CharAt(line, 2) \in Lower)
  THEN ""
  ELSE IF CharAt(line, 3) \in WhiteSpace THEN SubSeq(line, 1, 2)
  ELSE IF CharAt(line, 3) = "-"
  THEN LET e == SkipWhile(line, 4, Lower \cup Upper)
       IN IF e > 4 /\ e <= Len(line) /\ CharAt(line, e) \in WhiteSpace
          THEN SubSeq(line, 1, e - 1)
          ELSE ""
  ELSE ""

RECURSIVE CollectLanguages(_, _)
CollectLanguages(languages, lines) ==
  IF lines = <<>> THEN languages
  ELSE LET langCode == AvailableCode(Head(lines))
       IN CollectLanguages(
            IF langCode # "" /\ \A k \in 1..Len(languages) : languages[k] # langCode
            THEN Append(languages, langCode)
            ELSE languages,
            Tail(lines))

extractAvailableLanguages(subtitleListing) ==
  CollectLanguages(<<>>, SplitOn(subtitleListing, "\n"))

(***************************************************************************)
(* The server: configuration, requests, tool processes, scratch            *)
(* directories                                                             *)
(***************************************************************************)

\* bounds of the model
MaxRequests == 2
MaxFiles == 2

VARIABLES
  config,     \* GLOBAL_CONFIG: defaultSubtitleLanguage, withoutTimestamp
  pc,         \* per request slot: where its handler stands
  req,        \* per request slot: the request being handled
  tempDir,    \* per request slot: tempDir of downloadSubtitles, NoDir outside
  proc,       \* per request slot: the tool process its operation awaits
  fs,         \* os.tmpdir(): directory name -> file name -> writer
  reply,      \* per request slot: what the handler returned
  hist,       \* per request slot: what the operation has done so far
  content,    \* a subtitle text given to removeTimestamps
  stripped,   \* removeTimestamps(content)
  restripped, \* removeTimestamps(stripped)
  stripPc,
  toolOutput, \* a listing printed by the tool
  scan,       \* the state of the loop of listSubtitles after its last line
  listing,    \* what listSubtitles makes of it
  listPc

serverVars == <<config, pc, req, tempDir, proc, fs, reply, hist>>
stripVars == <<content, stripped, restripped, stripPc>>
listVars == <<toolOutput, scan, listing, listPc>>
vars == <<serverVars, stripVars, listVars>>

Requests == 1..MaxRequests

\* an optional value (undefined or a string) is a sequence of length 0 or 1
Undefined == <<>>
Some(v) == <<v>>

\* a || b on an optional string a: undefined and '' are falsy
OrElse(a, b) == IF a = Undefined \/ a[1] = "" THEN b ELSE a[1]

\* defaultConfig.download.defaultSubtitleLanguage
DefaultSubtitleLanguage == "en"

\* loadEnvConfig and mergeConfig for download.defaultSubtitleLanguage, env
\* being process.env.YTDLP_DEFAULT_SUBTITLE_LANG; validateConfig takes each
\* of the languages this gives for EnvLanguages
loadConfig(env) == OrElse(env, DefaultSubtitleLanguage)

ToolNames == {"get_available_subtitles", "get_subtitles", "get_video"}
ValidUrl == "https://www.youtube.com/watch?v=jNQXAC9IVRw"
Urls == {ValidUrl, "invalid-url"}
LanguageArgs == {Undefined, Some(""), Some("xx")}
EnvLanguages == {Undefined, Some(""), Some("fr")}

\* validateUrl of modules/utils on the URLs of the tests: it takes the URL
\* of a video and rejects 'invalid-url'
validateUrl(url) == url = ValidUrl

\* the directory names fs.mkdtempSync can make of the prefix 'youtube-mcp-':
\* one per request slot
DirSuffixes == <<"aaaaaa", "bbbbbb", "cccccc", "dddddd">>
DirNames == {"/tmp/youtube-mcp-" \o DirSuffixes[i] : i \in 1..MaxRequests}
NoDir == ""

\* what the tool may write under the output template, and what it writes
FileNames == {"v.en.vtt", "v.en-orig.vtt", "v.en.srt"}
FileData(name) ==
  IF name = "v.en.vtt" THEN "WEBVTT\n\n00:00:01.000 --> 00:00:03.000\nHi <c>all</c>\n"
  ELSE IF name = "v.en-orig.vtt" THEN "WEBVTT\n\n00:00:03.000 --> 00:00:05.000 line:0\nBye\n"
  ELSE "1\n00:00:01,000 --> 00:00:03,000\nHi all\n"

\* what the tool may print in listing mode
ToolListings ==
  { "[youtube] Extracting URL\n[info] Available automatic captions for v:\nLanguage Name Formats\nen  vtt\nfr French from English vtt",
    "[info] Available subtitles for v:\nLanguage Name Formats\nen English vtt\nzh-Hans Chinese vtt",
    "v has no subtitles" }

\* what the tool may print on its error stream
ToolErrors == {"ERROR: Video unavailable"}

NoProc == [mode |-> "none", language |-> "", dir |-> "", status |-> "none", out |-> ""]
NoReply == [kind |-> "none", isError |-> FALSE, text |-> ""]
\* what an operation has done: the directories it created, the processes it
\* spawned, the exit path it took, the languages its secondary listing gave,
\* what readdirSync gave it, the writers of the files it read, and its outcome
NoHist == [created |-> <<>>, spawned |-> <<>>, path |-> "", available |-> <<>>,
           enumerated |-> <<>>, read |-> {},
           outcome |-> [threw |-> FALSE, value |-> ""]]
NoReq == [name |-> "", url |-> "", language |-> Undefined]

\* the outcome of an async operation: a value or a thrown Error
Returned(v) == [threw |-> FALSE, value |-> v]
Threw(message) == [threw |-> TRUE, value |-> message]

\* handleToolExecution without its catch clause: the Error of action()
\* leaves the handler
handleToolExecutionNoCatch(outcome, errorPrefix) ==
  IF outcome.threw
  THEN [kind |-> "thrown", isError |-> FALSE, text |-> outcome.value]
  ELSE [kind |-> "result", isError |-> FALSE, text |-> outcome.value]

\* handleToolExecution: the reply for the outcome of action()
handleToolExecution(outcome, errorPrefix) ==
  IF outcome.threw
  THEN [kind |-> "result", isError |-> TRUE, text |-> errorPrefix \o ": " \o outcome.value]
  ELSE [kind |-> "result", isError |-> FALSE, text |-> outcome.value]

\* the error prefix the handler passes for a tool
ErrorPrefix(name) ==
  IF name = "get_available_subtitles" THEN "Error listing subtitle languages"
  ELSE "Error downloading subtitles"

InvalidUrlMessage == "Invalid or unsupported URL format"

\* args.language ?? GLOBAL_CONFIG.download.defaultSubtitleLanguage: only
\* undefined gives the default
RequestedLanguageNullish(language) ==
  IF language = Undefined THEN config.defaultSubtitleLanguage ELSE language[1]

\* args.language || GLOBAL_CONFIG.download.defaultSubtitleLanguage
RequestedLanguage(language) == OrElse(language, config.defaultSubtitleLanguage)

ServerInit ==
  /\ \E env \in EnvLanguages, wt \in BOOLEAN :
       config = [env |-> env, defaultSubtitleLanguage |-> loadConfig(env),
                 withoutTimestamp |-> wt]
  /\ pc = [r \in Requests |-> "idle"]
  /\ req = [r \in Requests |-> NoReq]
  /\ tempDir = [r \in Requests |-> NoDir]
  /\ proc = [r \in Requests |-> NoProc]
  /\ fs = <<>>
  /\ reply = [r \in Requests |-> NoReply]
  /\ hist = [r \in Requests |-> NoHist]

StripIdle ==
  /\ content = "" /\ stripped = "" /\ restripped = "" /\ stripPc = "off"

ListIdle ==
  /\ toolOutput = "" /\ scan = ListInit /\ listing = "" /\ listPc = "off"

\* the server before its first request, with the default configuration
ServerIdle ==
  /\ config = [env |-> Undefined, defaultSubtitleLanguage |-> loadConfig(Undefined),
               withoutTimestamp |-> FALSE]
  /\ pc = [r \in Requests |-> "idle"]
  /\ req = [r \in Requests |-> NoReq]
  /\ tempDir = [r \in Requests |-> NoDir]
  /\ proc = [r \in Requests |-> NoProc]
  /\ fs = <<>>
  /\ reply = [r \in Requests |-> NoReply]
  /\ hist = [r \in Requests |-> NoHist]

(***************************************************************************)
(* _spawnPromise and the tool process                                      *)
(***************************************************************************)

\* _spawnPromise('yt-dlp', [..., '--list-subs', ..., url])
SpawnList == [mode |-> "list", language |-> "", dir |-> "", status |-> "running", out |-> ""]

\* _spawnPromise('yt-dlp', [..., '--sub-lang', language, ..., '--output',
\* path.join(tempDir, '%(title)s.%(ext)s'), url])
SpawnDownload(language, dir) ==
  [mode |-> "download", language |-> language, dir |-> dir, status |-> "running", out |-> ""]

\* what awaiting _spawnPromise gives once the process has ended: its
\* standard output, or an Error with its error text
SpawnOutcome(p) == IF p.status = "ok" THEN Returned(p.out) ELSE Threw(p.out)

\* a directory with one more file, written by process w
WithFile(files, name, w) ==
  [n \in DOMAIN files \cup {name} |-> IF n = name THEN w ELSE files[n]]

\* the tool in download mode writes a file under its output template
ToolWriteFile(r, name) ==
  /\ proc[r].mode = "download"
  /\ proc[r].status = "running"
  /\ proc[r].dir \in DOMAIN fs
  /\ name \notin DOMAIN fs[proc[r].dir]
  /\ Cardinality(DOMAIN fs[proc[r].dir]) < MaxFiles
  /\ fs' = [fs EXCEPT ![proc[r].dir] = WithFile(@, name, r)]
  /\ UNCHANGED <<config, pc, req, tempDir, proc, reply, hist, stripVars, listVars>>

\* the tool ends: exit code 0 with its output, or a failure with error text
ToolExit(r) ==
  /\ proc[r].status = "running"
  /\ \/ \E out \in (IF proc[r].mode = "list" THEN ToolListings ELSE {""}) :
          proc' = [proc EXCEPT ![r].status = "ok", ![r].out = out]
     \/ \E err \in ToolErrors :
          proc' = [proc EXCEPT ![r].status = "failed", ![r].out = err]
  /\ UNCHANGED <<config, pc, req, tempDir, fs, reply, hist, stripVars, listVars>>

(***************************************************************************)
(* listSubtitles, downloadSubtitles and the CallToolRequestSchema handler  *)
(***************************************************************************)

\* a directory of one fixed name in place of fs.mkdtempSync
mkdtempSyncFixedName(dirs) == {"/tmp/youtube-mcp-" \o DirSuffixes[1]}

\* fs.mkdtempSync(prefix): the names it may return, none of them existing
mkdtempSync(dirs) == DirNames \ DOMAIN dirs

\* the file system with directory d created empty
WithDir(dirs, d) == [n \in DOMAIN dirs \cup {d} |-> IF n = d THEN <<>> ELSE dirs[n]]

\* fs.rmSync(d, { recursive: true, force: true })
rmSync(dirs, d) == [n \in DOMAIN dirs \ {d} |-> dirs[n]]

\* the orders in which fs.readdirSync may enumerate a directory
Enumerations(files) ==
  LET names == DOMAIN files
  IN {order \in [1..Cardinality(names) -> names] :
        \A i, j \in 1..Cardinality(names) : i # j => order[i] # order[j]}

\* .filter(file => file.endsWith('.vtt'))
IsVtt(file) == EndsWith(file, ".vtt")
VttFiles(order) == SelectSeq(order, IsVtt)

\* the loop with output = in place of output +=: the last file only
ReadLastFile(files) == IF files = <<>> THEN "" ELSE FileData(files[Len(files)])

\* the loop output += fs.readFileSync(path.join(tempDir, file), 'utf8')
RECURSIVE ReadFiles(_)
ReadFiles(files) ==
  IF files = <<>> THEN "" ELSE FileData(Head(files)) \o ReadFiles(Tail(files))

\* downloadSubtitles with the test of withoutTimestamp forgotten
DownloadOutputRaw(subtitleFiles, withoutTimestamp) == ReadFiles(subtitleFiles)

\* what downloadSubtitles returns for the subtitle files it read
DownloadOutput(subtitleFiles, withoutTimestamp) ==
  IF withoutTimestamp THEN removeTimestamps(ReadFiles(subtitleFiles))
  ELSE ReadFiles(subtitleFiles)

\* the error of the branch subtitleFiles.length === 0, listed being the
\* outcome of await listSubtitles(url): the try block throws in each of its
\* branches, and its catch clause replaces whatever was thrown
NoFilesError(language, listed) ==
  LET availableLanguages == extractAvailableLanguages(listed.value)
      tried ==
        IF listed.threw THEN listed
        ELSE IF Len(availableLanguages) > 0
        THEN Threw("No subtitles found for language '" \o language
                   \o "'. Available languages: " \o Join(availableLanguages, ", "))
        ELSE Threw("No subtitles available for this video")
  IN IF tried.threw
     THEN Threw("No subtitles found for language '" \o language \o "'")
     ELSE tried

\* the operation of slot r ends with outcome o, having taken exit path
\* path: handleToolExecution makes the reply of it
Reply(r, name, o, path) ==
  /\ reply' = [reply EXCEPT ![r] = handleToolExecution(o, ErrorPrefix(name))]
  /\ pc' = [pc EXCEPT ![r] = "replied"]
  /\ proc' = [proc EXCEPT ![r] = NoProc]
  /\ hist' = [hist EXCEPT ![r].outcome = o, ![r].path = path]

\* downloadSubtitles without its finally block
CleanupForgotten(r) ==
  /\ fs' = fs
  /\ tempDir' = [tempDir EXCEPT ![r] = NoDir]

\* the finally block of downloadSubtitles
Cleanup(r) ==
  /\ fs' = rmSync(fs, tempDir[r])
  /\ tempDir' = [tempDir EXCEPT ![r] = NoDir]

\* a request naming neither tool
CallUnknownTool(r, name, url, language) ==
  /\ pc[r] \in {"idle", "replied"}
  /\ name \notin {"get_available_subtitles", "get_subtitles"}
  /\ req' = [req EXCEPT ![r] = [name |-> name, url |-> url, language |-> language]]
  /\ reply' = [reply EXCEPT ![r] =
                 [kind |-> "result", isError |-> TRUE, text |-> "Unknown tool: " \o name]]
  /\ pc' = [pc EXCEPT ![r] = "replied"]
  /\ hist' = [hist EXCEPT ![r] = [NoHist EXCEPT !.path = "unknown"]]
  /\ UNCHANGED <<config, tempDir, proc, fs, stripVars, listVars>>

\* get_available_subtitles: listSubtitles(args.url) up to its await
CallListSubtitles(r, url, language) ==
  /\ pc[r] \in {"idle", "replied"}
  /\ req' = [req EXCEPT ![r] = [name |-> "get_available_subtitles", url |-> url,
                                language |-> language]]
  /\ IF ~validateUrl(url)
     THEN /\ reply' = [reply EXCEPT ![r] =
                         handleToolExecution(Threw(InvalidUrlMessage),
                                             ErrorPrefix("get_available_subtitles"))]
          /\ pc' = [pc EXCEPT ![r] = "replied"]
          /\ hist' = [hist EXCEPT ![r] = [NoHist EXCEPT !.path = "invalid",
                                                        !.outcome = Threw(InvalidUrlMessage)]]
          /\ UNCHANGED proc
     ELSE /\ proc' = [proc EXCEPT ![r] = SpawnList]
          /\ pc' = [pc EXCEPT ![r] = "listing"]
          /\ hist' = [hist EXCEPT ![r] = [NoHist EXCEPT !.spawned = <<"list">>]]
          /\ reply' = [reply EXCEPT ![r] = NoReply]
  /\ UNCHANGED <<config, tempDir, fs, stripVars, listVars>>

\* listSubtitles after its await
FinishListSubtitles(r) ==
  /\ pc[r] = "listing"
  /\ proc[r].status \in {"ok", "failed"}
  /\ LET spawned == SpawnOutcome(proc[r])
     IN Reply(r, "get_available_subtitles",
              IF spawned.threw THEN spawned ELSE Returned(ListedText(spawned.value)),
              IF spawned.threw THEN "list_failed" ELSE "listed")
  /\ UNCHANGED <<config, req, tempDir, fs, stripVars, listVars>>

\* downloadSubtitles with fs.mkdtempSync moved above the check of the URL
CallGetSubtitlesDirFirst(r, url, language) ==
  /\ pc[r] \in {"idle", "replied"}
  /\ req' = [req EXCEPT ![r] = [name |-> "get_subtitles", url |-> url, language |-> language]]
  /\ \E d \in mkdtempSync(fs) :
       /\ fs' = WithDir(fs, d)
       /\ IF ~validateUrl(url)
          THEN /\ reply' = [reply EXCEPT ![r] =
                              handleToolExecution(Threw(InvalidUrlMessage),
                                                  ErrorPrefix("get_subtitles"))]
               /\ pc' = [pc EXCEPT ![r] = "replied"]
               /\ hist' = [hist EXCEPT ![r] =
                             [NoHist EXCEPT !.path = "invalid", !.created = <<d>>,
                                            !.outcome = Threw(InvalidUrlMessage)]]
               /\ UNCHANGED <<tempDir, proc>>
          ELSE /\ tempDir' = [tempDir EXCEPT ![r] = d]
               /\ proc' = [proc EXCEPT ![r] = SpawnDownload(RequestedLanguage(language), d)]
               /\ pc' = [pc EXCEPT ![r] = "downloading"]
               /\ hist' = [hist EXCEPT ![r] =
                             [NoHist EXCEPT !.created = <<d>>, !.spawned = <<"download">>]]
               /\ reply' = [reply EXCEPT ![r] = NoReply]
  /\ UNCHANGED <<config, stripVars, listVars>>

\* get_subtitles: downloadSubtitles(args.url, args.language || default,
\* withoutTimestamp) up to its first await
CallGetSubtitles(r, url, language) ==
  /\ pc[r] \in {"idle", "replied"}
  /\ req' = [req EXCEPT ![r] = [name |-> "get_subtitles", url |-> url, language |-> language]]
  /\ IF ~validateUrl(url)
     THEN /\ reply' = [reply EXCEPT ![r] =
                         handleToolExecution(Threw(InvalidUrlMessage),
                                             ErrorPrefix("get_subtitles"))]
          /\ pc' = [pc EXCEPT ![r] = "replied"]
          /\ hist' = [hist EXCEPT ![r] = [NoHist EXCEPT !.path = "invalid",
                                                        !.outcome = Threw(InvalidUrlMessage)]]
          /\ UNCHANGED <<tempDir, proc, fs>>
     ELSE \E d \in mkdtempSync(fs) :
          /\ fs' = WithDir(fs, d)
          /\ tempDir' = [tempDir EXCEPT ![r] = d]
          /\ proc' = [proc EXCEPT ![r] = SpawnDownload(RequestedLanguage(language), d)]
          /\ pc' = [pc EXCEPT ![r] = "downloading"]
          /\ hist' = [hist EXCEPT ![r] =
                        [NoHist EXCEPT !.created = <<d>>, !.spawned = <<"download">>]]
          /\ reply' = [reply EXCEPT ![r] = NoReply]
  /\ UNCHANGED <<config, stripVars, listVars>>

\* downloadSubtitles starting the tool a second time when it has failed
DownloadFailedRetry(r) ==
  /\ pc[r] = "downloading"
  /\ proc[r].status = "failed"
  /\ IF Len(hist[r].spawned) < 2
     THEN /\ proc' = [proc EXCEPT ![r] = SpawnDownload(proc[r].language, tempDir[r])]
          /\ hist' = [hist EXCEPT ![r].spawned = Append(@, "download")]
          /\ UNCHANGED <<pc, tempDir, fs, reply>>
     ELSE /\ Cleanup(r)
          /\ Reply(r, "get_subtitles", SpawnOutcome(proc[r]), "download_failed")
  /\ UNCHANGED <<config, req, stripVars, listVars>>

\* downloadSubtitles when the tool has failed: the finally block, the throw
DownloadFailed(r) ==
  /\ pc[r] = "downloading"
  /\ proc[r].status = "failed"
  /\ Cleanup(r)
  /\ Reply(r, "get_subtitles", SpawnOutcome(proc[r]), "download_failed")
  /\ UNCHANGED <<config, req, stripVars, listVars>>

\* downloadSubtitles when the tool has ended and left subtitle files: read
\* them, strip if asked, the finally block, the return (or the throw of
\* readFileSync)
ReadSubtitles(r) ==
  /\ pc[r] = "downloading"
  /\ proc[r].status = "ok"
  /\ \E order \in Enumerations(fs[tempDir[r]]), readFails \in BOOLEAN :
       LET subtitleFiles == VttFiles(order)
           o == IF readFails
                THEN Threw("EISDIR: illegal operation on a directory, read")
                ELSE Returned(DownloadOutput(subtitleFiles, config.withoutTimestamp))
       IN /\ subtitleFiles # <<>>
          /\ Cleanup(r)
          /\ reply' = [reply EXCEPT ![r] = handleToolExecution(o, ErrorPrefix("get_subtitles"))]
          /\ pc' = [pc EXCEPT ![r] = "replied"]
          /\ proc' = [proc EXCEPT ![r] = NoProc]
          /\ hist' = [hist EXCEPT
               ![r].outcome = o,
               ![r].path = IF readFails THEN "read_failed" ELSE "downloaded",
               ![r].enumerated = order,
               ![r].read = {fs[tempDir[r]][subtitleFiles[k]] : k \in 1..Len(subtitleFiles)}]
  /\ UNCHANGED <<config, req, stripVars, listVars>>

\* downloadSubtitles when the tool has ended and left no subtitle file:
\* listSubtitles(url) up to its await (or its throw, inside the try block)
NoSubtitleFiles(r) ==
  /\ pc[r] = "downloading"
  /\ proc[r].status = "ok"
  /\ \A name \in DOMAIN fs[tempDir[r]] : ~IsVtt(name)
  /\ IF ~validateUrl(req[r].url)
     THEN /\ Cleanup(r)
          /\ Reply(r, "get_subtitles",
                   NoFilesError(proc[r].language, Threw(InvalidUrlMessage)),
                   "nofiles_list_failed")
     ELSE /\ proc' = [proc EXCEPT ![r] = [SpawnList EXCEPT !.language = proc[r].language]]
          /\ pc' = [pc EXCEPT ![r] = "fallback"]
          /\ hist' = [hist EXCEPT ![r].spawned = Append(@, "list")]
          /\ UNCHANGED <<tempDir, fs, reply>>
  /\ UNCHANGED <<config, req, stripVars, listVars>>

\* downloadSubtitles after await listSubtitles(url) of the no-files branch
AfterFallbackList(r) ==
  /\ pc[r] = "fallback"
  /\ proc[r].status \in {"ok", "failed"}
  /\ LET spawned == SpawnOutcome(proc[r])
         listed == IF spawned.threw THEN spawned ELSE Returned(ListedText(spawned.value))
         o == NoFilesError(proc[r].language, listed)
     IN /\ Cleanup(r)
        /\ reply' = [reply EXCEPT ![r] = handleToolExecution(o, ErrorPrefix("get_subtitles"))]
        /\ pc' = [pc EXCEPT ![r] = "replied"]
        /\ proc' = [proc EXCEPT ![r] = NoProc]
        /\ hist' = [hist EXCEPT
             ![r].outcome = o,
             ![r].path = IF listed.threw THEN "nofiles_list_failed" ELSE "nofiles_listed",
             ![r].available = IF listed.threw THEN <<>>
                              ELSE extractAvailableLanguages(listed.value)]
  /\ UNCHANGED <<config, req, stripVars, listVars>>

\* the steps of request slot r: the handler is called, the tool runs, the
\* operation resumes after an await
Handle(r) ==
  \/ \E name \in ToolNames, url \in Urls : CallUnknownTool(r, name, url, Undefined)
  \/ \E url \in Urls : CallListSubtitles(r, url, Undefined)
  \/ \E url \in Urls, language \in LanguageArgs : CallGetSubtitles(r, url, language)
  \/ \E name \in FileNames : ToolWriteFile(r, name)
  \/ ToolExit(r)
  \/ FinishListSubtitles(r)
  \/ DownloadFailed(r)
  \/ ReadSubtitles(r)
  \/ NoSubtitleFiles(r)
  \/ AfterFallbackList(r)

\* the server started without arguments and without environment settings,
\* its requests handled concurrently
Init == ServerIdle /\ StripIdle /\ ListIdle

Next == \E r \in Requests : Handle(r)

Spec == Init /\ [][Next]_vars

\* the server started with any command line and environment, its requests
\* arriving one after the other
InitConfigured == ServerInit /\ StripIdle /\ ListIdle

NextConfigured == Handle(1)

SpecConfigured == InitConfigured /\ [][NextConfigured]_vars

(***************************************************************************)
(* removeTimestamps applied to subtitle texts                              *)
(***************************************************************************)

\* the texts are made of at most MaxFragments of these pieces
MaxFragments == 3
StripFragments ==
  { "WEBVTT", "Kind:", "12", "00:00:01.000 --> 00:00:03.000", " line:0",
    " align:start", "<c>", "<", ">", "Hi", " ", "\n", "\r" }

RECURSIVE Concat(_)
Concat(parts) == IF parts = <<>> THEN "" ELSE Head(parts) \o Concat(Tail(parts))

SubtitleTexts ==
  {Concat(parts) : parts \in UNION {[1..n -> StripFragments] : n \in 0..MaxFragments}}

InitStrip ==
  /\ ServerIdle /\ ListIdle
  /\ content \in SubtitleTexts
  /\ stripped = "" /\ restripped = "" /\ stripPc = "input"

\* output = removeTimestamps(output)
Strip ==
  /\ stripPc = "input"
  /\ stripped' = removeTimestamps(content)
  /\ stripPc' = "once"
  /\ UNCHANGED <<content, restripped, serverVars, listVars>>

\* the stripper applied to its own result
StripAgain ==
  /\ stripPc = "once"
  /\ restripped' = removeTimestamps(stripped)
  /\ stripPc' = "twice"
  /\ UNCHANGED <<content, stripped, serverVars, listVars>>

NextStrip == Strip \/ StripAgain

SpecStrip == InitStrip /\ [][NextStrip]_vars

(***************************************************************************)
(* listSubtitles applied to listings of the tool                           *)
(***************************************************************************)

\* a listing has at most MaxLines of these lines
MaxLines == 4
ListingLines ==
  { "[info] Available automatic captions for v:",
    "[info] Available subtitles for v:",
    "Language Name Formats",
    "en  vtt",
    "en English vtt",
    "es-orig Spanish vtt",
    "pt Portuguese (Original) vtt",
    "fil  vtt",
    "de German vtt",
    "fr French from English vtt" }

\* a listing that is diagnostic noise has at most MaxNoiseLines of these
MaxNoiseLines == 2
NoiseLines ==
  { "[debug] Available subtitles for v:",
    "[youtube] v: en  vtt",
    "Language Downloading",
    "[youtube] Extracting URL: https://youtu.be/v",
    "[debug] Command-line config: ['--list-subs']",
    "[debug] Encodings: locale UTF-8",
    "[debug] Python 3.11.4",
    "[debug] exe versions: none",
    "[debug] Optional libraries: sqlite3",
    "[debug] Proxy map: {}",
    "[debug] Request Handlers: urllib",
    "[debug] Plugin directories: none",
    "[debug] Loaded 1838 extractors",
    "WARNING: PO Token missing",
    "[debug] Decrypted nsig a => b",
    "[debug] Sort order given by extractor",
    "[debug] Formats sorted by quality",
    "Language GVS PO Token" }

Listings(lines, n) == {Join(ls, "\n") : ls \in UNION {[1..k -> lines] : k \in 1..n}}

InitList ==
  /\ ServerIdle /\ StripIdle
  /\ toolOutput \in Listings(ListingLines, MaxLines)
  /\ scan = ListInit /\ listing = "" /\ listPc = "input"

InitNoise ==
  /\ ServerIdle /\ StripIdle
  /\ toolOutput \in Listings(NoiseLines, MaxNoiseLines)
  /\ scan = ListInit /\ listing = "" /\ listPc = "input"

\* the body of listSubtitles after await _spawnPromise
Normalize ==
  /\ listPc = "input"
  /\ scan' = FirstPass(ListInit, SplitOn(toolOutput, "\n"))
  /\ listing' = Join(FinalLines(scan'), "\n")
  /\ listPc' = "listed"
  /\ UNCHANGED <<toolOutput, serverVars, stripVars>>

NextList == Normalize

SpecList == InitList /\ [][NextList]_vars

SpecNoise == InitNoise /\ [][NextList]_vars

\* a listing with manual subtitles has at most MaxManualLines of these
MaxManualLines == 5
ManualListingLines ==
  { "[info] Available automatic captions for v:",
    "[info] Available subtitles for v:",
    "Language Name Formats",
    "en  vtt",
    "es-orig Spanish vtt",
    "fr French from English vtt" }

InitManual ==
  /\ ServerIdle /\ StripIdle
  /\ toolOutput \in Listings(ManualListingLines, MaxManualLines)
  /\ scan = ListInit /\ listing = "" /\ listPc = "input"

SpecManual == InitManual /\ [][NextList]_vars

(***************************************************************************)
(* Properties of removeTimestamps                                          *)
(***************************************************************************)

\* the lines the loop of removeTimestamps skips
IsSkipped(line) ==
  line = "" \/ IsVttHeader(line) \/ IsSequenceNumber(line) \/ IsTimestampLine(line)

\* no line of the text that the loop keeps becomes, with its tags removed, a
\* line the loop skips
TagsHideNoSkippedLine(text) ==
  LET lines == SplitLines(text)
  IN \A k \in 1..Len(lines) :
       LET line == Trim(lines[k])
       IN ~IsSkipped(line) => ~IsSkipped(Trim(StripTags(line))) \/ Trim(StripTags(line)) = ""

\* C4 as stated: removeTimestamps(removeTimestamps(x)) = removeTimestamps(x)
\* for every text x, texts where tag removal leaves digits or WEBVTT included
C4_Idempotent == stripPc = "twice" => restripped = stripped

\* C4 amended: removeTimestamps(removeTimestamps(x)) = removeTimestamps(x) for
\* every text x none of whose kept lines is, once its tags are removed, a
\* preamble line, an all-digit line or a timestamp line
C4_IdempotentUnlessTagsHide ==
  stripPc = "twice" /\ TagsHideNoSkippedLine(content) => restripped = stripped

\* a text with a tag whose stripping twice has given the same as once
C4_Witness ==
  /\ stripPc = "twice"
  /\ TagsHideNoSkippedLine(content)
  /\ Includes(content, "<c>")
  /\ stripped = "Hi"
  /\ restripped = "Hi"

(***************************************************************************)
(* Properties of the listing normalisation                                 *)
(***************************************************************************)

\* a track line of a listing: a language code, white space, and the rest
IsTrackLine(line) ==
  /\ LeadingCode(line) # ""
  /\ ~Includes(line, "has no subtitles")
  /\ ~IsNoise(line)

IsAutoHeader(line) == Includes(line, "Available automatic captions") /\ ~IsNoise(line)

\* "Available subtitles for" in the tool's listing, "Available manual
\* subtitles" in the output of listSubtitles
IsManualHeader(line) ==
  /\ Includes(line, "Available subtitles for") \/ Includes(line, "Available manual subtitles")
  /\ ~IsAutoHeader(line)
  /\ ~IsNoise(line)

\* the track lines of the sections of kind want, in order; section is the
\* kind of the section the first line is in
RECURSIVE SectionTracks(_, _, _)
SectionTracks(lines, section, want) ==
  IF lines = <<>> THEN <<>>
  ELSE LET line == Head(lines)
       IN IF IsAutoHeader(line) THEN SectionTracks(Tail(lines), "auto", want)
          ELSE IF IsManualHeader(line) THEN SectionTracks(Tail(lines), "manual", want)
          ELSE (IF section = want /\ IsTrackLine(line) THEN <<line>> ELSE <<>>)
               \o SectionTracks(Tail(lines), section, want)

Count(lines, P(_)) == Cardinality({k \in 1..Len(lines) : P(lines[k])})

InputLines == SplitOn(toolOutput, "\n")
OutputLines == SplitOn(listing, "\n")

NotTranslated(line) == ~Includes(line, " from ")

\* C5: a listing whose every line is diagnostic noise (every listing of
\* SpecNoise) gives exactly the line "No subtitles available for this video."
C5_NoiseOnlyGivesSentinel == listPc = "listed" => listing = NoSubtitlesLine

\* two noise lines that would be a header and a track line were they kept
C5_Witness ==
  /\ listPc = "listed"
  /\ toolOutput = "[debug] Available subtitles for v:\n[youtube] v: en  vtt"
  /\ listing = NoSubtitlesLine

\* C6: with one manual section the second pass does not run, and the track
\* lines of the manual section that do not contain " from " are all in the
\* output, unchanged and in order
C6_ManualLinesSurvive ==
  listPc = "listed" /\ Count(InputLines, IsManualHeader) = 1
  => /\ ~SecondPassRuns(scan)
     /\ SectionTracks(OutputLines, "", "manual")
          = SelectSeq(SectionTracks(InputLines, "", "manual"), NotTranslated)

\* a manual section of one track line, then an automatic section that
\* infers an original language: the second pass would drop a manual line
C6_Witness ==
  /\ listPc = "listed"
  /\ toolOutput = "[info] Available subtitles for v:\nLanguage Name Formats\nes-orig Spanish vtt\n[info] Available automatic captions for v:\nen  vtt"
  /\ scan.originalLanguages = {"en"}
  /\ SectionTracks(OutputLines, "", "manual") = <<"es-orig Spanish vtt">>

\* a track line with a two-character code and no name
IsShortUnnamed(line) ==
  LET m == AutoTrackMatch(line)
  IN m.ok /\ Len(m.langCode) = 2 /\ m.langName = ""

\* a track line the first pass tags as original
IsTaggedOriginal(line) ==
  LET m == AutoTrackMatch(line)
  IN /\ m.ok
     /\ \/ EndsWith(m.langCode, "-orig")
        \/ Includes(m.langName, "Original")
        \/ (m.langName = "" /\ Len(m.langCode) <= 3)

\* the listing has an automatic section only, and exactly one of its track
\* lines has a two-character code and no name
OneShortUnnamed ==
  /\ Count(InputLines, IsAutoHeader) = 1
  /\ Count(InputLines, IsManualHeader) = 0
  /\ Count(SectionTracks(InputLines, "", "auto"), IsShortUnnamed) = 1

TheShortUnnamed ==
  LET tracks == SectionTracks(InputLines, "", "auto")
  IN tracks[CHOOSE k \in 1..Len(tracks) : IsShortUnnamed(tracks[k])]

\* C7 as stated: that code is inferred original and that line is the only
\* track line of the output, whatever the other track lines are
C7_OnlyShortUnnamedKept ==
  listPc = "listed" /\ OneShortUnnamed
  => /\ LeadingCode(TheShortUnnamed) \in scan.originalLanguages
     /\ SectionTracks(OutputLines, "", "auto") = <<TheShortUnnamed>>

\* C7 amended: that code is inferred original and that line is in the
\* output; it is the only track line of the output when no other track line
\* is tagged original (-orig code, "Original" in the name, no name and a
\* code of at most 3 characters) or has the same code
C7_ShortUnnamedKept ==
  listPc = "listed" /\ OneShortUnnamed
  => LET tracks == SectionTracks(InputLines, "", "auto")
         kept == SectionTracks(OutputLines, "", "auto")
         others == {k \in 1..Len(tracks) : tracks[k] # TheShortUnnamed}
     IN /\ LeadingCode(TheShortUnnamed) \in scan.originalLanguages
        /\ \E k \in 1..Len(kept) : kept[k] = TheShortUnnamed
        /\ (\A k \in others :
              /\ ~IsTaggedOriginal(tracks[k])
              /\ LeadingCode(tracks[k]) # LeadingCode(TheShortUnnamed))
           => kept = <<TheShortUnnamed>>

\* an automatic section with a named track line of another language before
\* the unnamed one: only the unnamed one is listed
C7_Witness ==
  /\ listPc = "listed"
  /\ toolOutput = "[info] Available automatic captions for v:\nLanguage Name Formats\nde German vtt\nen  vtt"
  /\ OneShortUnnamed
  /\ listing = "[info] Available automatic captions:\nLanguage Name Formats\nen  vtt"

(***************************************************************************)
(* downloadSubtitles and the handler: errors, scratch directories,         *)
(* concurrent requests, the language of a request                          *)
(***************************************************************************)

\* the operation of slot r is downloadSubtitles between its first await and
\* its end
InFlight(r) == pc[r] \in {"downloading", "fallback"}

\* slot r has answered a get_subtitles request that got past the check of
\* its URL
DownloadDone(r) ==
  /\ pc[r] = "replied"
  /\ req[r].name = "get_subtitles"
  /\ hist[r].path # "invalid"

\* C1: a download that found no .vtt file and whose follow-up listing
\* succeeded with at least one language code fails with a message that
\* enumerates those codes
C1_ErrorNamesAvailableLanguages ==
  \A r \in Requests :
    (DownloadDone(r) /\ hist[r].path = "nofiles_listed" /\ hist[r].available # <<>>)
    => /\ hist[r].outcome.threw
       /\ Includes(hist[r].outcome.value,
                   "Available languages: " \o Join(hist[r].available, ", "))

\* C2: a download past the check of its URL creates exactly one scratch
\* directory and has removed it when it ends, on every exit path: every
\* directory that exists is the one of a download still in flight
C2_ScratchDirectoryRemoved ==
  /\ \A r \in Requests :
       /\ InFlight(r) => hist[r].created = <<tempDir[r]>> /\ tempDir[r] \in DOMAIN fs
       /\ DownloadDone(r) => Len(hist[r].created) = 1 /\ tempDir[r] = NoDir
  /\ \A d \in DOMAIN fs : \E r \in Requests : InFlight(r) /\ tempDir[r] = d

\* two downloads have ended, one on a failed read and one on the no-files
\* error after a successful listing, and no directory is left
C2_Witness ==
  /\ DownloadDone(1) /\ hist[1].path = "read_failed" /\ Len(hist[1].created) = 1
  /\ DownloadDone(2) /\ hist[2].path = "nofiles_listed" /\ Len(hist[2].created) = 1
  /\ fs = <<>>

\* C3: for a URL the validator rejects, listSubtitles and downloadSubtitles
\* fail with the invalid-URL error, no process spawned and no scratch
\* directory created
C3_InvalidUrlFailsFirst ==
  \A r \in Requests :
    (/\ pc[r] = "replied"
     /\ req[r].name \in {"get_available_subtitles", "get_subtitles"}
     /\ ~validateUrl(req[r].url))
    => /\ hist[r].outcome = Threw("Invalid or unsupported URL format")
       /\ reply[r].isError
       /\ EndsWith(reply[r].text, ": Invalid or unsupported URL format")
       /\ hist[r].spawned = <<>>
       /\ hist[r].created = <<>>
       /\ proc[r] = NoProc
       /\ tempDir[r] = NoDir

\* both operations have rejected a URL, and no directory exists
C3_Witness ==
  /\ pc[1] = "replied" /\ req[1].name = "get_available_subtitles"
  /\ pc[2] = "replied" /\ req[2].name = "get_subtitles"
  /\ \A r \in Requests : ~validateUrl(req[r].url) /\ hist[r].path = "invalid"
  /\ fs = <<>>

\* C8: the handler answers every request with a result: isError and
\* "<prefix>: <message>" when the operation threw, the text of the result
\* without isError when it returned, isError and "Unknown tool: <name>" with
\* nothing spawned or created for an unknown tool; after an error reply the
\* handler takes the next request
C8_HandlerNeverThrows ==
  \A r \in Requests :
    pc[r] = "replied"
    => /\ reply[r].kind = "result"
       /\ IF req[r].name \notin {"get_available_subtitles", "get_subtitles"}
          THEN /\ reply[r].isError
               /\ reply[r].text = "Unknown tool: " \o req[r].name
               /\ hist[r].spawned = <<>>
               /\ hist[r].created = <<>>
          ELSE IF hist[r].outcome.threw
          THEN /\ reply[r].isError
               /\ reply[r].text = (IF req[r].name = "get_subtitles"
                                   THEN "Error downloading subtitles: "
                                   ELSE "Error listing subtitle languages: ")
                                  \o hist[r].outcome.value
          ELSE /\ ~reply[r].isError
               /\ reply[r].text = hist[r].outcome.value
       /\ reply[r].isError => ENABLED CallListSubtitles(r, ValidUrl, Undefined)

\* one request has failed in the tool, an unknown tool has been refused
C8_Witness ==
  /\ pc[1] = "replied" /\ hist[1].path = "download_failed"
  /\ reply[1] = [kind |-> "result", isError |-> TRUE,
                 text |-> "Error downloading subtitles: ERROR: Video unavailable"]
  /\ pc[2] = "replied" /\ req[2].name = "get_video"
  /\ reply[2] = [kind |-> "result", isError |-> TRUE, text |-> "Unknown tool: get_video"]

\* what C9 says of one state: downloads in flight have distinct scratch
\* directories, each existing and holding only files of its own tool
\* process, and a download has read only files of its own tool process
ScratchDirectoriesApart ==
  \A r \in Requests :
    /\ InFlight(r)
       => /\ tempDir[r] \in DOMAIN fs
          /\ \A s \in Requests \ {r} : InFlight(s) => tempDir[s] # tempDir[r]
          /\ \A n \in DOMAIN fs[tempDir[r]] : fs[tempDir[r]][n] = r
    /\ hist[r].read \subseteq {r}

\* what C9 says of one step: a download in flight before and after it has
\* kept its directory and every file in it
ScratchDirectoriesKept ==
  \A r \in Requests :
    (InFlight(r) /\ pc'[r] \in {"downloading", "fallback"})
    => /\ tempDir'[r] = tempDir[r]
       /\ tempDir[r] \in DOMAIN fs'
       /\ \A n \in DOMAIN fs[tempDir[r]] : n \in DOMAIN fs'[tempDir[r]]

\* C9: concurrent downloads use distinct scratch directories, the cleanup of
\* one removes no directory or file of another still in flight, and each
\* builds its content from the files of its own directory only
C9_ConcurrentDownloadsApart ==
  []ScratchDirectoriesApart /\ [][ScratchDirectoriesKept]_vars

\* one download has returned the files of its own directory while the other
\* is still in flight with a file in its directory
C9_Witness ==
  /\ DownloadDone(1) /\ hist[1].path = "downloaded" /\ hist[1].read = {1}
  /\ pc[2] = "downloading" /\ tempDir[2] \in DOMAIN fs
  /\ DOMAIN fs[tempDir[2]] # {}

\* C10 as stated: the language passed to downloadSubtitles is the language
\* argument when one is given, the configured default when it is omitted
C10_GivenLanguagePassed ==
  \A r \in Requests :
    pc[r] = "downloading"
    => proc[r].language = IF req[r].language # Undefined
                          THEN req[r].language[1]
                          ELSE config.defaultSubtitleLanguage

\* C10 amended: the language passed to downloadSubtitles is the language
\* argument when it is a non-empty string, the configured default when it is
\* omitted or empty; the default is "en" unless the environment sets a
\* non-empty one
C10_NonEmptyLanguagePassed ==
  /\ config.defaultSubtitleLanguage =
       IF config.env \in {Undefined, Some("")} THEN "en" ELSE config.env[1]
  /\ \A r \in Requests :
       pc[r] = "downloading"
       => proc[r].language = IF req[r].language \in {Undefined, Some("")}
                             THEN config.defaultSubtitleLanguage
                             ELSE req[r].language[1]

\* an empty language argument under a default set by the environment
C10_Witness ==
  /\ pc[1] = "downloading"
  /\ req[1].language = Some("")
  /\ config.env = Some("fr")
  /\ proc[1].language = "fr"

(***************************************************************************)
(* The content get_subtitles returns                                       *)
(***************************************************************************)

\* slot r has answered a get_subtitles request with the content of files
Downloaded(r) == DownloadDone(r) /\ hist[r].path = "downloaded"

HasVttName(name) == Len(name) >= 4 /\ SubSeq(name, Len(name) - 3, Len(name)) = ".vtt"

\* the contents, one after the other, of the files among names that end in .vtt
RECURSIVE ContentsOf(_)
ContentsOf(names) ==
  IF names = <<>> THEN ""
  ELSE (IF HasVttName(Head(names)) THEN FileData(Head(names)) ELSE "")
       \o ContentsOf(Tail(names))

\* what C11 says of one state: the text of a successful get_subtitles reply
\* is the content of the .vtt files as written when the server was started
\* without --without-timestamp, and what the stripper makes of it when it
\* was started with it
ReplyFollowsStartFlag ==
  \A r \in Requests :
    Downloaded(r)
    => /\ ~reply[r].isError
       /\ reply[r].text =
            IF config.withoutTimestamp
            THEN removeTimestamps(ContentsOf(hist[r].enumerated))
            ELSE ContentsOf(hist[r].enumerated)

\* C11: stripping is decided at server start and no request changes it:
\* the configuration stays as it was, and every successful get_subtitles
\* reply is the raw content without the flag, the stripped one with it
C11_StrippingSetAtStart ==
  []ReplyFollowsStartFlag /\ [][config' = config]_vars

\* a server started with the flag has answered with a text stripped of its
\* header, timestamp line and tags
C11_Witness ==
  /\ config.withoutTimestamp
  /\ Downloaded(1)
  /\ hist[1].enumerated = <<"v.en.vtt">>
  /\ reply[1].text = "Hi all"

CuePrefixes == {"", "WEBVTT\n\n", "1\n"}

\* timestamp ranges, with the cue settings the expression of removeTimestamps
\* names: position:N%, line:N, line:-N%, align:start|middle|end, size:N%,
\* vertical:rl|lr
CueTimings ==
  { "00:00:01.000 --> 00:00:03.000 position:50% line:0",
    "00:00:01,000 --> 00:00:03,000",
    "00:00:01.000-->00:00:03.000 align:start size:80%",
    "00:00:01.000 --> 00:00:03.000 vertical:rl line:-1%",
    "00:00:01.000 --> 00:00:03.000 align:middle position:0%",
    "00:00:01.000 --> 00:00:03.000 align:end vertical:lr " }

\* lines after the timing line: the line, the line with its <...> tags taken
\* out and nothing else changed, and what kind of line it is
CueTexts ==
  { [line |-> "Hi all",          untagged |-> "Hi all",    class |-> "text"],
    [line |-> "Hi <c>all</c>",   untagged |-> "Hi all",    class |-> "text"],
    [line |-> "<v Bob>Hi",       untagged |-> "Hi",        class |-> "text"],
    [line |-> "a < b",           untagged |-> "a < b",     class |-> "text"],
    [line |-> "1 <2> 3",         untagged |-> "1  3",      class |-> "text"],
    [line |-> "12 apples",       untagged |-> "12 apples", class |-> "text"],
    [line |-> " Hi ",            untagged |-> " Hi ",      class |-> "text"],
    [line |-> "<00:00:01.500><c> all</c>", untagged |-> " all", class |-> "text"],
    [line |-> "12",              untagged |-> "12",        class |-> "digits"],
    [line |-> "00:00:05.000 --> 00:00:06.000",
     untagged |-> "00:00:05.000 --> 00:00:06.000", class |-> "timing"],
    [line |-> "<c></c>",         untagged |-> "",          class |-> "empty"],
    [line |-> "<i> </i>",        untagged |-> " ",         class |-> "empty"],
    [line |-> "WEBVTT",          untagged |-> "WEBVTT",    class |-> "header"],
    [line |-> "Kind: captions",  untagged |-> "Kind: captions", class |-> "header"],
    [line |-> "Language: en",    untagged |-> "Language: en",   class |-> "header"] }

CueOf(prefix, timing, text) == prefix \o timing \o "\n" \o text.line

InitCue ==
  /\ ServerIdle /\ ListIdle
  /\ content \in {CueOf(p, t, x) : p \in CuePrefixes, t \in CueTimings, x \in CueTexts}
  /\ stripped = "" /\ restripped = "" /\ stripPc = "input"

SpecCue == InitCue /\ [][NextStrip]_vars

\* C13 as stated: the timing line is removed and the line after it is kept
\* with its tags removed and its remaining text unchanged, whatever it is
C13_NextLineKeptUnchanged ==
  stripPc # "input"
  => \A p \in CuePrefixes, t \in CueTimings, x \in CueTexts :
       content = CueOf(p, t, x) => stripped = x.untagged

\* C13: the timing line, with or without cue settings, is removed; the line
\* after it is kept with its tags removed and its surrounding white space
\* trimmed, unless it is a header line, all digits, a timing line itself, or
\* empty once its tags are removed, and then nothing is kept of it
C13_NextLineKeptTrimmed ==
  stripPc # "input"
  => \A p \in CuePrefixes, t \in CueTimings, x \in CueTexts :
       content = CueOf(p, t, x)
       => stripped = IF x.class = "text" THEN Trim(x.untagged) ELSE ""

\* the cue of the claim's example, with tags in the text line
C13_Witness ==
  /\ stripPc = "once"
  /\ content = "00:00:01.000 --> 00:00:03.000 position:50% line:0\nHi <c>all</c>"
  /\ stripped = "Hi all"

(***************************************************************************)
(* The stripper on the same lines under different line endings             *)
(***************************************************************************)

MaxPhysicalLines == 3

PhysicalLines ==
  { "WEBVTT", "", "1", "00:00:01.000 --> 00:00:03.000", "Hi", "Bye <c>now</c>" }

LineEndings == {"\r\n", "\n", "\r"}

PhysicalTexts == UNION {[1..n -> PhysicalLines] : n \in 1..MaxPhysicalLines}

InitEndings ==
  /\ ServerIdle /\ ListIdle
  /\ content \in {Join(lines, e) : lines \in PhysicalTexts, e \in LineEndings}
  /\ stripped = "" /\ restripped = "" /\ stripPc = "input"

SpecEndings == InitEndings /\ [][NextStrip]_vars

\* C14: whichever of "\r\n", "\n" and "\r" joins the physical lines, the
\* stripper gives what it gives for the lines joined with "\n"
C14_LineEndingsAlike ==
  stripPc # "input"
  => \A lines \in PhysicalTexts, e \in LineEndings :
       content = Join(lines, e) => stripped = removeTimestamps(Join(lines, "\n"))

(***************************************************************************)
(* Manual and auto-generated files of one download; the no-files errors    *)
(***************************************************************************)

\* the tool names the file of the manual track of language en v.en.vtt and
\* the one of the auto-generated track of the same language v.en-orig.vtt
ManualFile == "v.en.vtt"
AutoFile == "v.en-orig.vtt"

BothVariantsRead(r) ==
  /\ Downloaded(r)
  /\ \E i \in 1..Len(hist[r].enumerated) : hist[r].enumerated[i] = ManualFile
  /\ \E i \in 1..Len(hist[r].enumerated) : hist[r].enumerated[i] = AutoFile

\* C15: manual subtitles have priority: when the scratch directory holds the
\* manual and the auto-generated file, the download returns the content of
\* the manual file only
C15_ManualFilePreferred ==
  \A r \in Requests :
    (BothVariantsRead(r) /\ ~config.withoutTimestamp)
    => hist[r].outcome = Returned(FileData(ManualFile))

\* C20: a download that found no .vtt file and whose follow-up listing
\* succeeded without any language code fails with the error of a video
\* without subtitles, not with the error that names the language
C20_NoSubtitlesAtAllError ==
  \A r \in Requests :
    (DownloadDone(r) /\ hist[r].path = "nofiles_listed" /\ hist[r].available = <<>>)
    => /\ hist[r].outcome = Threw("No subtitles available for this video")
       /\ ~Includes(reply[r].text, "No subtitles found for language")

(***************************************************************************)
(* The automatic section of a listing: what the two passes keep; the       *)
(* sentinel line; the lines that are dropped                               *)
(***************************************************************************)

\* the listing has automatic sections only
AutoOnly ==
  /\ Count(InputLines, IsAutoHeader) >= 1
  /\ Count(InputLines, IsManualHeader) = 0

IsColumnHeader(line) == StartsWith(line, "Language") /\ ~IsNoise(line)

\* every section header and column header of the listing is in the output
HeadersKept ==
  /\ Count(OutputLines, IsAutoHeader) = Count(InputLines, IsAutoHeader)
  /\ Count(OutputLines, IsManualHeader) = Count(InputLines, IsManualHeader)
  /\ Count(OutputLines, IsColumnHeader) = Count(InputLines, IsColumnHeader)

EndsWithSentinel == OutputLines[Len(OutputLines)] = NoSubtitlesLine

\* C16: in an automatic-only listing where no original language is
\* inferred, every track line without " from " is in the output, and the
\* output does not end with the sentinel while there is such a line
C16_UninferredLinesKept ==
  (listPc = "listed" /\ AutoOnly /\ scan.originalLanguages = {})
  => LET tracks == SelectSeq(SectionTracks(InputLines, "", "auto"), NotTranslated)
     IN /\ SectionTracks(OutputLines, "", "auto") = tracks
        /\ tracks # <<>> => ~EndsWithSentinel

\* the code of the line, with or without -orig, is an inferred original
\* language, and the line is not a translation
OfInferredLanguage(line) ==
  /\ NotTranslated(line)
  /\ \/ LeadingCode(line) \in scan.originalLanguages
     \/ RemoveFirst(LeadingCode(line), "-orig") \in scan.originalLanguages

\* C17: in an automatic-only listing with an inferred original language,
\* the track lines of the output are exactly the track lines of the listing
\* whose code is in the inferred set, wherever they stand relative to the
\* line that marked the language, and the header lines are all kept
C17_TracksOfInferredLanguages ==
  (listPc = "listed" /\ AutoOnly /\ scan.originalLanguages # {})
  => /\ SectionTracks(OutputLines, "", "auto")
          = SelectSeq(SectionTracks(InputLines, "", "auto"), OfInferredLanguage)
     /\ HeadersKept

\* C18: the output ends with the sentinel line exactly when it has no track
\* line, however many header lines it has
C18_SentinelIffNoTrackLine ==
  listPc = "listed"
  => (EndsWithSentinel <=> Count(OutputLines, IsTrackLine) = 0)

\* a listing has at most MaxDroppedLines of these lines
MaxDroppedLines == 4
DroppedListingLines ==
  { "[info] Available automatic captions for v:",
    "[info] Available subtitles for v:",
    "Language Name Formats",
    "en  vtt",
    "fr French from English vtt",
    "v has no subtitles",
    "LanguageXY0 has no subtitles" }

InitDropped ==
  /\ ServerIdle /\ StripIdle
  /\ toolOutput \in Listings(DroppedListingLines, MaxDroppedLines)
  /\ scan = ListInit /\ listing = "" /\ listPc = "input"

SpecDropped == InitDropped /\ [][NextList]_vars

\* a is b with some of its elements left out
RECURSIVE IsSubsequence(_, _)
IsSubsequence(a, b) ==
  IF a = <<>> THEN TRUE
  ELSE IF b = <<>> THEN FALSE
  ELSE IF Head(a) = Head(b) THEN IsSubsequence(Tail(a), Tail(b))
  ELSE IsSubsequence(a, Tail(b))

\* a line of the output that listSubtitles did not write itself
IsRetainedLine(line) ==
  ~IsAutoHeader(line) /\ ~IsManualHeader(line) /\ line # NoSubtitlesLine

\* C19: no line of the output is a track line with " from " or a "has no
\* subtitles" line, and the lines retained from the listing are in the
\* order they have in the listing
C19_TranslatedAndEmptyDropped ==
  listPc = "listed"
  => /\ \A k \in 1..Len(OutputLines) :
          /\ ~(LeadingCode(OutputLines[k]) # "" /\ Includes(OutputLines[k], " from "))
          /\ ~Includes(OutputLines[k], "has no subtitles")
     /\ IsSubsequence(SelectSeq(OutputLines, IsRetainedLine), InputLines)

(***************************************************************************)
(* The subprocesses of one operation                                       *)
(***************************************************************************)

\* the processes the operation of slot r has started so far, by its position
SpawnedOnce ==
  \A r \in Requests :
    /\ (pc[r] = "listing" \/ (pc[r] = "replied" /\ hist[r].path \in {"listed", "list_failed"}))
       => hist[r].spawned = <<"list">>
    /\ pc[r] = "downloading" => hist[r].spawned = <<"download">>
    /\ pc[r] = "fallback" => hist[r].spawned = <<"download", "list">>
    /\ DownloadDone(r)
       => /\ hist[r].spawned \in {<<"download">>, <<"download", "list">>}
          /\ hist[r].spawned = <<"download", "list">>
             => hist[r].path \in {"nofiles_listed", "nofiles_list_failed"}
          /\ hist[r].path \in {"download_failed", "downloaded", "read_failed"}
             => hist[r].spawned = <<"download">>

\* a step that starts a process in the middle of an operation starts the
\* listing after a download that ended with exit code 0 and no .vtt file;
\* no step of an operation whose process has failed starts a process
SpawnsInOrder ==
  \A r \in Requests :
    /\ (pc[r] # "replied" /\ pc[r] # "idle" /\ hist'[r].spawned # hist[r].spawned)
       => /\ hist[r].spawned = <<"download">>
          /\ hist'[r].spawned = <<"download", "list">>
          /\ proc[r].mode = "download" /\ proc[r].status = "ok"
          /\ \A name \in DOMAIN fs[tempDir[r]] : ~HasVttName(name)
    /\ proc[r].status = "failed"
       => hist'[r].spawned = hist[r].spawned /\ proc'[r].status # "running"

\* C21: no operation retries a subprocess: a listing starts the tool once;
\* a download starts it once in download mode and at most once in listing
\* mode, and then only after the download ended successfully without a .vtt
\* file; after a failed process the operation starts no other
C21_NoRetry == []SpawnedOnce /\ [][SpawnsInOrder]_vars

\* one download went on to the listing after finding no file, another ended
\* with its failed tool
C21_Witness ==
  /\ DownloadDone(1) /\ hist[1].path = "nofiles_listed"
  /\ hist[1].spawned = <<"download", "list">>
  /\ DownloadDone(2) /\ hist[2].path = "download_failed"
  /\ hist[2].spawned = <<"download">>

(***************************************************************************)
(* extractAvailableLanguages on the output of listSubtitles                *)
(***************************************************************************)

\* the language codes of the track lines among lines, in order
RECURSIVE TrackCodes(_)
TrackCodes(lines) ==
  IF lines = <<>> THEN <<>>
  ELSE (IF IsTrackLine(Head(lines)) THEN <<LeadingCode(Head(lines))>> ELSE <<>>)
       \o TrackCodes(Tail(lines))

\* codes with every element after its first appearance left out
RECURSIVE FirstAppearances(_, _)
FirstAppearances(seen, codes) ==
  IF codes = <<>> THEN seen
  ELSE FirstAppearances(
         IF \E k \in 1..Len(seen) : seen[k] = Head(codes) THEN seen
         ELSE Append(seen, Head(codes)),
         Tail(codes))

\* C22: extractAvailableLanguages applied to the output of listSubtitles
\* returns the language code of every track line of that output, each once,
\* in the order of first appearance
C22_ListedLanguagesExtracted ==
  listPc = "listed"
  => extractAvailableLanguages(listing) = FirstAppearances(<<>>, TrackCodes(OutputLines))

(***************************************************************************)
(* The second pass of listSubtitles                                        *)
(***************************************************************************)

\* C23: whenever the second pass runs, every track line the first pass
\* pushed has its code, with or without -orig, in the set of original
\* languages, and the filter of the second pass removes no line
C23_SecondPassRemovesNothing ==
  (listPc = "listed" /\ SecondPassRuns(scan))
  => /\ \A k \in 1..Len(scan.result) :
          LeadingCode(scan.result[k]) # ""
          => \/ LeadingCode(scan.result[k]) \in scan.originalLanguages
             \/ RemoveFirst(LeadingCode(scan.result[k]), "-orig") \in scan.originalLanguages
     /\ SecondPass(scan) = scan.result
     /\ listing = Join(scan.result, "\n") \/ Len(scan.result) <= 2

\* the second pass runs on a listing with a line of another language: the
\* first pass has not pushed that line, the second has nothing to remove
C23_Witness ==
  /\ listPc = "listed"
  /\ toolOutput = "[info] Available automatic captions for v:\nde German vtt\nen  vtt\nes-orig Spanish vtt"
  /\ SecondPassRuns(scan)
  /\ scan.result = <<"[info] Available automatic captions:", "en  vtt", "es-orig Spanish vtt">>
  /\ SecondPass(scan) = scan.result

====
